---- MODULE Spec2Model ----
(***************************************************************************)
(* Copeland-Galai equilibrium bid/ask solver (technical_analysis/utils.py). *)
(*                                                                         *)
(* Real numbers are fixed-point: an integer n stands for n/Q.  Candidate   *)
(* spreads move on a grid of Tick = Q/8, so that S/2, the z-scores and     *)
(* lam*b fall on the 1/16 grid of the function tables.  NaN stands for     *)
(* every non-finite float (nan, +inf, -inf): once one appears inside       *)
(* _expected_profit the returned profit is non-finite as well.  With a     *)
(* resolution of 1/Q the tail terms 1 - cdf(z) and cdf(-z) underflow to 0  *)
(* from |z| = 3.3 on; binary64 does the same from |z| = 8.3 and 38.        *)
(*                                                                         *)
(* scipy.optimize.fsolve (MINPACK hybrd) is modelled by its structure for  *)
(* one unknown: a forward-difference slope, trial steps p = -f/slope       *)
(* bounded by delta, acceptance only when |f| decreases, secant updates,   *)
(* termination with ier = 1 (zero residual or step bound below the         *)
(* resolution) or with ier # 1 (budget, no progress).  In every case it    *)
(* returns its current iterate, and without full_output only warns.        *)
(***************************************************************************)
EXTENDS Integers, Sequences, FiniteSets, TLC

\* ---------------------------------------------------------------- numbers
Q == 1024
One == Q
Tick == Q \div 8
TableStep == Q \div 16
NaN == -1073741824

IsFinite(v) == v # NaN
Abs(n) == IF n < 0 THEN -n ELSE n

\* nearest integer to n/d, halves rounded up
RoundDiv(n, d) ==
  IF d > 0 THEN (2 * n + d) \div (2 * d) ELSE (2 * (-n) + (-d)) \div (2 * (-d))

FAdd(v, w) == IF IsFinite(v) /\ IsFinite(w) THEN v + w ELSE NaN
FSub(v, w) == IF IsFinite(v) /\ IsFinite(w) THEN v - w ELSE NaN
FMul(v, w) == IF IsFinite(v) /\ IsFinite(w) THEN RoundDiv(v * w, Q) ELSE NaN
\* numpy: x/0 is inf or nan with a RuntimeWarning, never an exception
FDiv(v, w) ==
  IF IsFinite(v) /\ IsFinite(w) /\ w # 0 THEN RoundDiv(v * Q, w) ELSE NaN
Half(v) == IF IsFinite(v) THEN RoundDiv(v, 2) ELSE NaN

\* ---------------------------------------------------------------- tables
\* round(Q * pdf(k/16)), k = 0..64
PdfTable ==
  <<409, 408, 405, 401, 396, 389, 381, 371, 361, 349, 336,
    323, 308, 294, 279, 263, 248, 232, 217, 202, 187, 173,
    159, 145, 133, 121, 109, 98, 88, 79, 70, 63, 55,
    49, 43, 37, 33, 28, 24, 21, 18, 15, 13, 11,
    9, 8, 7, 5, 5, 4, 3, 3, 2, 2, 1,
    1, 1, 1, 1, 0, 0, 0, 0, 0, 0>>

\* round(Q * cdf(k/16)), k = 0..64
CdfTable ==
  <<512, 538, 563, 588, 613, 638, 662, 685, 708, 730, 752,
    772, 792, 811, 829, 846, 862, 877, 891, 904, 916, 927,
    937, 947, 956, 963, 971, 977, 983, 988, 993, 997, 1001,
    1004, 1007, 1009, 1011, 1013, 1015, 1016, 1018, 1019, 1020, 1020,
    1021, 1021, 1022, 1022, 1023, 1023, 1023, 1023, 1023, 1024, 1024,
    1024, 1024, 1024, 1024, 1024, 1024, 1024, 1024, 1024, 1024>>

\* round(Q * exp(-k/16)), k = -80..128
ExpTable ==
  <<151975, 142767, 134118, 125992, 118358, 111187, 104451, 98122, 92178, 86593, 81346,
    76418, 71788, 67439, 63353, 59514, 55909, 52521, 49339, 46350, 43542, 40904,
    38425, 36097, 33910, 31856, 29926, 28113, 26409, 24809, 23306, 21894, 20568,
    19321, 18151, 17051, 16018, 15048, 14136, 13279, 12475, 11719, 11009, 10342,
    9715, 9127, 8574, 8054, 7566, 7108, 6677, 6273, 5893, 5536, 5200,
    4885, 4589, 4311, 4050, 3805, 3574, 3358, 3154, 2963, 2784, 2615,
    2456, 2308, 2168, 2036, 1913, 1797, 1688, 1586, 1490, 1400, 1315,
    1235, 1160, 1090, 1024, 962, 904, 849, 797, 749, 704, 661,
    621, 583, 548, 515, 484, 454, 427, 401, 377, 354, 332,
    312, 293, 276, 259, 243, 228, 215, 202, 189, 178, 167,
    157, 148, 139, 130, 122, 115, 108, 101, 95, 89, 84,
    79, 74, 70, 65, 61, 58, 54, 51, 48, 45, 42,
    40, 37, 35, 33, 31, 29, 27, 26, 24, 23, 21,
    20, 19, 18, 17, 16, 15, 14, 13, 12, 11, 11,
    10, 9, 9, 8, 8, 7, 7, 6, 6, 6, 5,
    5, 5, 4, 4, 4, 4, 3, 3, 3, 3, 3,
    3, 2, 2, 2, 2, 2, 2, 2, 2, 1, 1,
    1, 1, 1, 1, 1, 1, 1, 1, 1, 1, 1,
    1, 1, 1, 1, 0, 0, 0, 0, 0, 0, 0>>

\* scipy.stats.norm.pdf: even in z, underflows to 0 in the tails
norm_pdf(z) ==
  IF ~IsFinite(z) THEN NaN
  ELSE LET k == RoundDiv(Abs(z), TableStep)
       IN  IF k > 64 THEN 0 ELSE PdfTable[k + 1]

\* scipy.stats.norm.cdf: saturates to 0 / 1 in the tails
norm_cdf(z) ==
  IF ~IsFinite(z) THEN NaN
  ELSE LET k  == RoundDiv(Abs(z), TableStep)
           up == IF k > 64 THEN One ELSE CdfTable[k + 1]
       IN  IF z >= 0 THEN up ELSE One - up

\* numpy.exp: underflows to 0 for large negative arguments, overflows to inf
np_exp(y) ==
  IF ~IsFinite(y) THEN NaN
  ELSE LET k == RoundDiv(-y, TableStep)
       IN  IF k > 128 THEN 0
           ELSE IF k < -80 THEN NaN
           ELSE ExpTable[k + 81]


\* ------------------------------------------------------- model parameters
SMaxUnits == 4          \* candidate spreads are kept within [-SMaxUnits, SMaxUnits]
SMax == SMaxUnits * Q
MaxFev == 8             \* fsolve's evaluation budget (maxfev), scaled down
MaxSlow == 3            \* hybrd's slow-progress limit (nslow1), scaled down
Factor == 100           \* fsolve's default factor for the initial step bound

Mus == {0, 2 * Q}
Sigmas == {0, Q \div 2, Q}
Lams == {0, Q, 2 * Q}
Pis == {0, Q \div 4, Q \div 2, Q}
Guesses == {-4 * Q, 0, Q, 2 * Q, 4 * Q}

\* ------------------------------------------------------- profit functions
\* bid_ask_normal._expected_profit
expected_profit_normal(mu, sigma, pi, S) ==
  LET a == FAdd(mu, Half(S))
      b == FSub(mu, Half(S))
      z_a == FDiv(FSub(a, mu), sigma)
      z_b == FDiv(FSub(mu, b), sigma)
      E_V_gt_a == FAdd(mu, FDiv(FMul(sigma, norm_pdf(z_a)), FSub(One, norm_cdf(z_a))))
      E_V_lt_b == FSub(mu, FDiv(FMul(sigma, norm_pdf(z_b)), norm_cdf(z_b)))
      profit_ask == FAdd(FMul(FSub(One, pi), FSub(a, mu)), FMul(pi, FSub(a, E_V_gt_a)))
      profit_bid == FAdd(FMul(FSub(One, pi), FSub(mu, b)), FMul(pi, FSub(E_V_lt_b, b)))
  IN  [valid |-> TRUE, S |-> S, a |-> a, b |-> b,
       E_V_gt_a |-> E_V_gt_a, E_V_lt_b |-> E_V_lt_b,
       profit |-> FMul(Q \div 2, FAdd(profit_ask, profit_bid))]

\* slip: the rate added where the mean 1/lam belongs
upper_mean_rate_for_mean(a, lam) == FAdd(a, lam)

\* E[V | V > a] of bid_ask_exponential._expected_profit
upper_mean_exponential(a, lam) == FAdd(a, FDiv(One, lam))

\* E[V | V < b] of bid_ask_exponential._expected_profit
lower_mean_exponential(b, lam) ==
  LET e == np_exp(FMul(FSub(0, lam), b))
  IN  FDiv(FSub(One, FMul(e, FAdd(One, FMul(lam, b)))),
           FMul(lam, FSub(One, e)))

\* bid_ask_exponential._expected_profit, with EV = 1.0 / lam
expected_profit_exponential(lam, pi, S) ==
  LET EV == FDiv(One, lam)
      a == FAdd(EV, Half(S))
      b == FSub(EV, Half(S))
      E_V_gt_a == upper_mean_exponential(a, lam)
      E_V_lt_b == lower_mean_exponential(b, lam)
      profit_ask == FAdd(FMul(FSub(One, pi), FSub(a, EV)), FMul(pi, FSub(a, E_V_gt_a)))
      profit_bid == FAdd(FMul(FSub(One, pi), FSub(EV, b)), FMul(pi, FSub(E_V_lt_b, b)))
  IN  [valid |-> TRUE, S |-> S, a |-> a, b |-> b,
       E_V_gt_a |-> E_V_gt_a, E_V_lt_b |-> E_V_lt_b,
       profit |-> FMul(Q \div 2, FAdd(profit_ask, profit_bid))]

\* ------------------------------------------------------------------ state
VARIABLES
  pc,       \* "idle", "jac", "step" (inside fsolve), "returned", "raised"
  call,     \* arguments of the call in progress
  x,        \* fsolve: current iterate
  fx,       \* fsolve: _expected_profit at x
  df,       \* fsolve: slope estimate, numerator
  dx,       \* fsolve: slope estimate, denominator
  delta,    \* fsolve: step bound
  nfev,     \* fsolve: number of calls of _expected_profit
  ncfail,   \* fsolve: consecutive rejected steps since the last Jacobian
  nslow,    \* fsolve: consecutive iterations without progress
  ev,       \* the latest evaluation of _expected_profit
  sawNaN,   \* some evaluation of this call was non-finite
  result,   \* outcome of the call and the returned triple
  prev      \* arguments and spread of the previous completed call

vars == <<pc, call, x, fx, df, dx, delta, nfev, ncfail, nslow, ev, sawNaN, result, prev>>

NoCall == [family |-> "none", mu |-> 0, sigma |-> 0, lam |-> 0, pi |-> 0, guess |-> 0]
NoEval == [valid |-> FALSE, S |-> 0, a |-> 0, b |-> 0,
           E_V_gt_a |-> 0, E_V_lt_b |-> 0, profit |-> 0]
NoResult == [outcome |-> "none", ier |-> 0, bid |-> 0, ask |-> 0, spread |-> 0]
NoPrev == [family |-> "none", mu |-> 0, sigma |-> 0, lam |-> 0, pi |-> 0,
           outcome |-> "none", spread |-> 0, sawNaN |-> FALSE]

\* the center the quotes are placed around: mu, or EV = 1.0 / lam
Center(c) == IF c.family = "normal" THEN c.mu ELSE FDiv(One, c.lam)

\* the closure handed to fsolve
expected_profit(c, S) ==
  IF c.family = "normal"
  THEN expected_profit_normal(c.mu, c.sigma, c.pi, S)
  ELSE expected_profit_exponential(c.lam, c.pi, S)

Init ==
  /\ pc = "idle"
  /\ call = NoCall
  /\ x = 0 /\ fx = 0 /\ df = 0 /\ dx = 0 /\ delta = 0
  /\ nfev = 0 /\ ncfail = 0 /\ nslow = 0
  /\ ev = NoEval
  /\ sawNaN = FALSE
  /\ result = NoResult
  /\ prev = NoPrev

\* ----------------------------------------------------------------- fsolve
\* hybrd's first evaluation at the initial guess
StartFsolve(c) ==
  LET e == expected_profit(c, c.guess)
  IN  /\ call' = c
      /\ x' = c.guess
      /\ fx' = e.profit
      /\ df' = 0 /\ dx' = 0
      /\ delta' = IF c.guess = 0 THEN Factor * Q ELSE Factor * Abs(c.guess)
      /\ nfev' = 1 /\ ncfail' = 0 /\ nslow' = 0
      /\ ev' = e
      /\ sawNaN' = ~IsFinite(e.profit)
      /\ result' = NoResult
      /\ pc' = "jac"

Remember ==
  prev' = IF pc = "idle" THEN prev
          ELSE [family |-> call.family, mu |-> call.mu, sigma |-> call.sigma,
                lam |-> call.lam, pi |-> call.pi,
                outcome |-> result.outcome, spread |-> result.spread,
                sawNaN |-> sawNaN]

\* A caller solves once, or solves again for the same distribution with
\* another pi and another initial guess; calls share no state in the code.
CanCall(family, mu, sigma, lam) ==
  \/ pc = "idle"
  \/ /\ pc \in {"returned", "raised"}
     /\ call.family = family /\ call.mu = mu /\ call.sigma = sigma /\ call.lam = lam

\* hybrd stops with info = 1 on a zero residual or a step bound below xtol
Converged == fx = 0 \/ delta < Tick
\* hybrd stops with info = 2 (maxfev) or info = 5 (no progress)
Exhausted == nfev >= MaxFev \/ nslow >= MaxSlow

Clip(v, lo, hi) == IF v < lo THEN lo ELSE IF v > hi THEN hi ELSE v

\* forward-difference Jacobian (fdjac1): one more evaluation at x + h
FsolveJacobian ==
  /\ pc = "jac"
  /\ ~Converged /\ ~Exhausted
  /\ LET e == expected_profit(call, x + Tick)
     IN  /\ df' = FSub(e.profit, fx)
         /\ dx' = Tick
         /\ ev' = e
         /\ sawNaN' = (sawNaN \/ ~IsFinite(e.profit))
  /\ nfev' = nfev + 1
  /\ ncfail' = 0
  /\ pc' = "step"
  /\ UNCHANGED <<call, x, fx, delta, nslow, result, prev>>

\* one trial step x + p with p = -f / slope, bounded by delta
FsolveStep ==
  /\ pc = "step"
  /\ ~Converged /\ ~Exhausted
  /\ LET pOK  == IsFinite(fx) /\ IsFinite(df) /\ df # 0
         pRaw == IF pOK THEN Tick * RoundDiv((-fx) * dx, df * Tick) ELSE NaN
         bnd  == Tick * (delta \div Tick)
         p    == IF pOK THEN Clip(pRaw, -bnd, bnd) ELSE NaN
         x1   == IF pOK THEN Clip(x + p, -SMax, SMax) ELSE NaN
         e    == expected_profit(call, x1)
         f1   == e.profit
         accept == pOK /\ IsFinite(f1) /\ Abs(f1) < Abs(fx)
         fail == IF accept THEN 0 ELSE ncfail + 1
     IN  /\ ev' = e
         /\ sawNaN' = (sawNaN \/ ~IsFinite(f1))
         /\ x' = IF accept THEN x1 ELSE x
         /\ fx' = IF accept THEN f1 ELSE fx
         \* rank-one (secant) update of the slope
         /\ df' = IF pOK /\ IsFinite(f1) /\ x1 # x THEN f1 - fx ELSE df
         /\ dx' = IF pOK /\ IsFinite(f1) /\ x1 # x THEN x1 - x ELSE dx
         /\ delta' = IF pOK /\ pRaw = 0 THEN 0
                     ELSE IF accept THEN 2 * Abs(x1 - x)
                     ELSE delta \div 2
         /\ ncfail' = fail
         /\ nslow' = IF accept THEN 0 ELSE nslow + 1
         /\ pc' = IF fail >= 2 THEN "jac" ELSE "step"
  /\ nfev' = nfev + 1
  /\ UNCHANGED <<call, result, prev>>

\* ------------------------------------------------------------ the results
\* slip: the whole spread added to the center
AskWholeSpread(center, spread) == FAdd(center, spread)
\* ask = center + spread / 2
Ask(center, spread) == FAdd(center, Half(spread))

\* slip: the whole spread subtracted from the center
BidWholeSpread(center, spread) == FSub(center, spread)
\* bid = center - spread / 2
Bid(center, spread) == FSub(center, Half(spread))

Triple(ier) ==
  [outcome |-> "returned", ier |-> ier,
   bid |-> Bid(Center(call), x), ask |-> Ask(Center(call), x), spread |-> x]

\* fsolve returns x with ier = 1; the triple is built from it
ReturnConverged ==
  /\ pc \in {"jac", "step"}
  /\ Converged
  /\ result' = Triple(1)
  /\ pc' = "returned"
  /\ UNCHANGED <<call, x, fx, df, dx, delta, nfev, ncfail, nslow, ev, sawNaN, prev>>

\* fsolve only warns when ier # 1 and returns x; the triple is built from it
ReturnNotConverged ==
  /\ pc \in {"jac", "step"}
  /\ ~Converged /\ Exhausted
  /\ result' = Triple(IF nfev >= MaxFev THEN 2 ELSE 5)
  /\ pc' = "returned"
  /\ UNCHANGED <<call, x, fx, df, dx, delta, nfev, ncfail, nslow, ev, sawNaN, prev>>

\* ------------------------------------------------------------- the calls
bid_ask_normal ==
  /\ \E mu \in Mus, sigma \in Sigmas, pi \in Pis, guess \in Guesses :
       /\ CanCall("normal", mu, sigma, 0)
       /\ StartFsolve([family |-> "normal", mu |-> mu, sigma |-> sigma,
                       lam |-> 0, pi |-> pi, guess |-> guess])
  /\ Remember

bid_ask_exponential ==
  /\ \E lam \in Lams \ {0}, pi \in Pis, guess \in Guesses :
       /\ CanCall("exponential", 0, 0, lam)
       /\ StartFsolve([family |-> "exponential", mu |-> 0, sigma |-> 0,
                       lam |-> lam, pi |-> pi, guess |-> guess])
  /\ Remember

\* EV = 1.0 / lam raises ZeroDivisionError for lam = 0, before fsolve
bid_ask_exponential_raise ==
  /\ CanCall("exponential", 0, 0, 0)
  /\ \E pi \in Pis, guess \in Guesses :
       call' = [family |-> "exponential", mu |-> 0, sigma |-> 0,
                lam |-> 0, pi |-> pi, guess |-> guess]
  /\ result' = [NoResult EXCEPT !.outcome = "ZeroDivisionError"]
  /\ pc' = "raised"
  /\ x' = 0 /\ fx' = 0 /\ df' = 0 /\ dx' = 0 /\ delta' = 0
  /\ nfev' = 0 /\ ncfail' = 0 /\ nslow' = 0
  /\ ev' = NoEval
  /\ sawNaN' = FALSE
  /\ Remember

Next ==
  \/ bid_ask_normal
  \/ bid_ask_exponential
  \/ bid_ask_exponential_raise
  \/ FsolveJacobian
  \/ FsolveStep
  \/ ReturnConverged
  \/ ReturnNotConverged

Spec == Init /\ [][Next]_vars

\* ------------------------------------------------------------ properties
\* sigma > 0 or lam > 0
ValidDistribution ==
  IF call.family = "normal" THEN call.sigma > 0
  ELSE call.family = "exponential" /\ call.lam > 0

\* the distribution is valid and 0 < pi < 1
ValidCall == ValidDistribution /\ call.pi > 0 /\ call.pi < One

Returned == result.outcome = "returned"

\* the latest evaluation was made at a finite candidate spread
Evaluated == ev.valid /\ IsFinite(ev.S)

\* C1: whatever value fsolve handed back, the returned triple satisfies
\* ask - bid = spread, and spread is exactly fsolve's value.
C1_AskMinusBidIsSpread ==
  Returned => (result.ask - result.bid = result.spread /\ result.spread = x)

C1_Witness ==
  /\ Returned /\ ValidCall /\ call.family = "normal"
  /\ result.ier = 1 /\ result.spread > 0

\* C2: the returned quotes are symmetric around the center (mu or 1/lam),
\* whatever spread fsolve produced: bid + ask = 2 * center.
C2_SymmetricAroundCenter ==
  Returned => result.bid + result.ask = 2 * Center(call)

C2_Witness ==
  /\ Returned /\ ValidCall /\ call.family = "exponential"
  /\ result.spread # 0 /\ result.spread # call.guess

\* C3: a call with sigma <= 0, lam <= 0 or pi outside (0,1) ends in an error
\* before the root finder evaluates anything, and returns no triple.
C3_InvalidParameterRejected ==
  (call.family # "none" /\ ~ValidCall) => (pc = "raised" /\ nfev = 0)

\* C4: no triple is returned from a root finder that gave up: every returned
\* spread comes with ier = 1 and a finite residual.  Stated for valid calls.
C4_NoTripleWithoutConvergence ==
  (Returned /\ ValidCall) => (result.ier = 1 /\ IsFinite(fx))

\* C5: with pi = 0 the profit function is S/2 at every candidate spread and
\* the solve returns spread = 0 with bid = ask = center.
C5_ZeroPiGivesZeroSpread ==
  (call.pi = 0 /\ ValidDistribution) =>
     /\ Evaluated => ev.profit = Half(ev.S)
     /\ Returned => /\ result.spread = 0
                    /\ result.bid = Center(call)
                    /\ result.ask = Center(call)

\* C6: for one distribution and valid pi1 < pi2, the spread solved at pi2 is
\* not below the spread solved at pi1.
C6_SpreadMonotoneInPi ==
  (Returned /\ ValidCall /\ prev.outcome = "returned"
     /\ prev.pi > 0 /\ prev.pi < One) =>
     /\ prev.pi < call.pi => prev.spread <= result.spread
     /\ prev.pi > call.pi => prev.spread >= result.spread

\* C7: for a valid call the returned spread is strictly positive and the
\* quotes straddle the center: bid < center < ask.
C7_PositiveSpread ==
  (Returned /\ ValidCall) =>
     /\ result.spread > 0
     /\ result.bid < Center(call)
     /\ Center(call) < result.ask

\* C8: for the Exponential family the upper conditional mean exceeds the ask
\* threshold by exactly 1/lam at every candidate spread: lam * (E - a) = 1,
\* so the informed-trade term a - E is -1/lam.
C8_MemorylessUpperMean ==
  (call.family = "exponential" /\ Evaluated) =>
     /\ FMul(call.lam, ev.E_V_gt_a - ev.a) = One
     /\ ev.a - ev.E_V_gt_a = -Center(call)

C8_Witness ==
  /\ call.family = "exponential" /\ Evaluated
  /\ ev.S # call.guess /\ ev.S # 0 /\ call.lam # One

\* C9: at every candidate spread the profit function and both conditional
\* means are finite (no zero denominator reaches the result).
C9_ProfitAlwaysFinite ==
  (Evaluated /\ ValidCall) =>
     /\ IsFinite(ev.E_V_gt_a)
     /\ IsFinite(ev.E_V_lt_b)
     /\ IsFinite(ev.profit)

\* C10: for S >= 0 the conditional means lie beyond their thresholds,
\* E[V|V>a] >= a and E[V|V<b] <= b, and for the Normal family the lower mean
\* mirrors the upper one.  Stated where both means are finite.
C10_MeansBeyondThresholds ==
  (Evaluated /\ ValidCall /\ ev.S >= 0
     /\ IsFinite(ev.E_V_gt_a) /\ IsFinite(ev.E_V_lt_b)) =>
     /\ ev.E_V_gt_a >= ev.a
     /\ ev.E_V_lt_b <= ev.b
     /\ call.family = "normal" =>
          call.mu - ev.E_V_lt_b = ev.E_V_gt_a - call.mu

\* Where no evaluation of the call is non-finite, the solver behaves:
\* a valid call converges to a strictly positive spread,
ConvergesWhenFinite ==
  (Returned /\ ValidCall /\ ~sawNaN) => (result.ier = 1 /\ result.spread > 0)

\* with pi = 0 the profit is S/2 and the returned spread is 0,
ZeroPiWhenFinite ==
  (call.pi = 0 /\ ValidDistribution /\ ~sawNaN) =>
     /\ Evaluated => ev.profit = Half(ev.S)
     /\ Returned => result.spread = 0

\* and the spreads of two valid solves are ordered as their pi.
MonotoneWhenFinite ==
  (Returned /\ ValidCall /\ ~sawNaN /\ prev.outcome = "returned"
     /\ ~prev.sawNaN /\ prev.pi > 0 /\ prev.pi < One /\ prev.pi < call.pi) =>
     prev.spread <= result.spread

====
